---- MODULE Spec2Model ----
(***************************************************************************)
(* Model of src/main.rs: the orchestrator BazImpl::baz drives one provider *)
(* of the trait Foo (the production FooImpl or the mockall double MockFoo) *)
(* by handing it the single-use identity closure.                          *)
(*                                                                         *)
(* One "scenario" is one execution of an entry point: main (lines 3-8),    *)
(* test_foo (lines 16-39), or a direct caller of FooImpl::bar with an      *)
(* arbitrary closure (the trait method is generic over F, lines 54-56).    *)
(* drives and calls are kept across scenarios as a record of every baz     *)
(* invocation and every bar call, so that runs can be compared.            *)
(***************************************************************************)
EXTENDS Integers, Sequences, FiniteSets, TLC

\* Number of entry-point executions explored.
MaxRuns == 2
\* Largest number of baz invocations a test issues against one double
\* (test_foo as written issues exactly one, line 36).
MaxDrives == 2

\* mock_foo.expect_bar().times(1)
Times == 1

\* Closures a caller can pass for F: FnOnce(Zed) -> Zed.
\*   identity  : |zed| zed            (the one baz passes, line 66)
\*   construct : |_| Zed {}           (drops its argument, builds a new value)
\*   panic     : |_| panic!()
Transforms == {"identity", "construct", "panic"}

VARIABLES
    runs,       \* entry-point executions started so far
    entry,      \* running entry point: "none", "main", "test_foo", "caller"
    epc,        \* position inside the entry point
    planned,    \* baz invocations the entry point issues against its provider
    issued,     \* baz invocations it has issued so far
    mock,       \* the MockFoo of the running test
    captured,   \* captured_update_fn: "None" or "Some"
    panic,      \* panic raised in the running scenario, "none" otherwise
    drives,     \* every baz invocation so far
    calls,      \* every bar call so far
    zeds        \* Zed values constructed so far (they are numbered 1..zeds)

vars == <<runs, entry, epc, planned, issued, mock, captured, panic, drives, calls, zeds>>

NoMock == [state |-> "none", count |-> 0, verdict |-> "pending"]

\* MockFoo::new() followed by expect_bar().times(1)...
NewMock == [state |-> "live", count |-> 0, verdict |-> "pending"]

CurDrive == Len(drives)
CurCall == Len(calls)

\* The process of the previous scenario is over (or there was none).
Stopped == epc \in {"idle", "exited", "panicked"}

\* The call that is being executed, if any.
CallActive == /\ CurCall > 0
              /\ calls[CurCall].state \in {"not_started", "in_progress"}
              /\ epc \in {"await_baz", "await_bar"}

Init ==
    /\ runs = 0
    /\ entry = "none"
    /\ epc = "idle"
    /\ planned = 0
    /\ issued = 0
    /\ mock = NoMock
    /\ captured = "None"
    /\ panic = "none"
    /\ drives = <<>>
    /\ calls = <<>>
    /\ zeds = 0

NewDrive(e, p, first) ==
    [entry |-> e, provider |-> p, fresh |-> first, state |-> "not_invoked",
     bars |-> 0, log |-> <<>>]

NewCall(d, p, f) ==
    [drive |-> d, provider |-> p, update_fn |-> f, state |-> "not_started",
     invoked |-> 0, invokedWith |-> 0, constructed |-> 0, arg |-> 0,
     zedsAtCall |-> zeds]

\* main, lines 4-7: build FooImpl and BazImpl, create the baz future.
main_start ==
    /\ Stopped
    /\ runs < MaxRuns
    /\ runs' = runs + 1
    /\ entry' = "main"
    /\ epc' = "await_baz"
    /\ planned' = 1
    /\ issued' = 1
    /\ mock' = NoMock
    /\ captured' = "None"
    /\ panic' = "none"
    /\ drives' = Append(drives, NewDrive("main", "FooImpl", TRUE))
    /\ UNCHANGED <<calls, zeds>>

\* main, line 8: the await returned, main ends.
main_return ==
    /\ entry = "main"
    /\ epc = "after_baz"
    /\ epc' = "exited"
    /\ UNCHANGED <<runs, entry, planned, issued, mock, captured, panic, drives, calls, zeds>>

\* test_foo, lines 18-33: the capture slot starts as None, the double expects
\* bar once.  n is the number of baz invocations issued against the double.
test_foo_start(n) ==
    /\ Stopped
    /\ runs < MaxRuns
    /\ runs' = runs + 1
    /\ entry' = "test_foo"
    /\ epc' = "line35"
    /\ planned' = n
    /\ issued' = 0
    /\ mock' = NewMock
    /\ captured' = "None"
    /\ panic' = "none"
    /\ UNCHANGED <<drives, calls, zeds>>

\* test_foo, lines 35-36: build BazImpl, create the baz future on the double.
test_foo_call_baz ==
    /\ entry = "test_foo"
    /\ epc \in {"line35", "after_baz"}
    /\ issued < planned
    /\ issued' = issued + 1
    /\ epc' = "await_baz"
    /\ drives' = Append(drives, NewDrive("test_foo", "MockFoo", issued = 0))
    /\ UNCHANGED <<runs, entry, planned, mock, captured, panic, calls, zeds>>

\* A test that never hands its double to baz lets it go out of scope unused:
\* MockFoo's drop verifies the expectation and finds fewer than Times calls.
test_foo_drop_unused ==
    /\ entry = "test_foo"
    /\ epc = "line35"
    /\ planned = 0
    /\ mock.state = "live"
    /\ LET ok == mock.count >= Times
       IN /\ mock' = [mock EXCEPT !.state = "dropped",
                                  !.verdict = IF ok THEN "passed" ELSE "failed"]
          /\ panic' = IF ok THEN "none" ELSE "called_fewer_than_expected"
          /\ epc' = IF ok THEN "after_baz" ELSE "panicked"
    /\ UNCHANGED <<runs, entry, planned, issued, captured, drives, calls, zeds>>

\* test_foo, line 38: assert!(captured_update_fn.lock().unwrap().is_some()).
test_foo_assert ==
    /\ entry = "test_foo"
    /\ epc = "after_baz"
    /\ issued = planned
    /\ IF captured = "Some"
          THEN epc' = "exited" /\ panic' = "none"
          ELSE epc' = "panicked" /\ panic' = "assert_is_some_failed"
    /\ UNCHANGED <<runs, entry, planned, issued, mock, captured, drives, calls, zeds>>

\* A caller other than baz: FooImpl {}.bar(f) for any closure f.
caller_start(f) ==
    /\ Stopped
    /\ runs < MaxRuns
    /\ runs' = runs + 1
    /\ entry' = "caller"
    /\ epc' = "await_bar"
    /\ planned' = 0
    /\ issued' = 0
    /\ mock' = NoMock
    /\ captured' = "None"
    /\ panic' = "none"
    /\ calls' = Append(calls, NewCall(0, "FooImpl", f))
    /\ UNCHANGED <<drives, zeds>>

\* The direct caller's await returned.
caller_return ==
    /\ entry = "caller"
    /\ epc = "await_bar"
    /\ calls[CurCall].state = "complete"
    /\ epc' = "exited"
    /\ UNCHANGED <<runs, entry, planned, issued, mock, captured, panic, drives, calls, zeds>>

\* Variant of BazImpl_baz_call: baz returns without calling f.bar at all.
BazImpl_baz_call_skip ==
    /\ epc = "await_baz"
    /\ drives[CurDrive].state = "not_invoked"
    /\ drives' = [drives EXCEPT ![CurDrive].state = "complete",
                                ![CurDrive].log = Append(@, "return")]
    /\ epc' = "after_baz"
    /\ UNCHANGED <<runs, entry, planned, issued, mock, captured, panic, calls, zeds>>

\* BazImpl::baz, line 66 up to the await: build the closure |zed| zed and
\* call f.bar with it.
BazImpl_baz_call ==
    /\ epc = "await_baz"
    /\ drives[CurDrive].state = "not_invoked"
    /\ drives' = [drives EXCEPT ![CurDrive].state = "awaiting",
                                ![CurDrive].bars = @ + 1,
                                ![CurDrive].log = Append(@, "bar(identity)")]
    /\ calls' = Append(calls, NewCall(CurDrive, drives[CurDrive].provider, "identity"))
    /\ UNCHANGED <<runs, entry, epc, planned, issued, mock, captured, panic, zeds>>

\* The double is moved into baz; it is dropped when baz returns from the
\* last invocation issued against it.  Its drop verifies the expectation.
DropsMock == drives[CurDrive].provider = "MockFoo" /\ issued = planned

\* Variant of BazImpl_baz_return: baz does not await the bar future, it
\* returns as soon as the call has been issued.
BazImpl_baz_return_early ==
    /\ epc = "await_baz"
    /\ drives[CurDrive].state = "awaiting"
    /\ calls[CurCall].drive = CurDrive
    /\ drives' = [drives EXCEPT ![CurDrive].state = "complete",
                                ![CurDrive].log = Append(@, "return")]
    /\ epc' = "after_baz"
    /\ UNCHANGED <<runs, entry, planned, issued, mock, captured, panic, calls, zeds>>

\* BazImpl::baz, lines 66-67: the awaited bar call completed, baz returns and
\* drops f.
BazImpl_baz_return ==
    /\ epc = "await_baz"
    /\ drives[CurDrive].state = "awaiting"
    /\ calls[CurCall].drive = CurDrive
    /\ calls[CurCall].state = "complete"
    /\ LET ok == ~DropsMock \/ mock.count >= Times
       IN /\ drives' = [drives EXCEPT
                 ![CurDrive].state = IF ok THEN "complete" ELSE "unwound",
                 ![CurDrive].log = IF ok THEN Append(@, "return") ELSE @]
          /\ mock' = IF DropsMock
                        THEN [mock EXCEPT !.state = "dropped",
                                          !.verdict = IF ok THEN "passed" ELSE "failed"]
                        ELSE mock
          /\ panic' = IF ok THEN "none" ELSE "called_fewer_than_expected"
          /\ epc' = IF ok THEN "after_baz" ELSE "panicked"
    /\ UNCHANGED <<runs, entry, planned, issued, captured, calls, zeds>>

\* A panic inside the running bar call unwinds through baz and the entry
\* point: the drive never completes and the double is dropped unverified.
Unwind(reason) ==
    /\ panic' = reason
    /\ epc' = "panicked"
    /\ drives' = IF calls[CurCall].drive > 0
                    THEN [drives EXCEPT ![calls[CurCall].drive].state = "unwound"]
                    ELSE drives

\* Variant of FooImpl_bar_construct: bar builds no value of its own and hands
\* the closure the value left by an earlier call.
FooImpl_bar_construct_stale ==
    /\ CallActive
    /\ calls[CurCall].provider = "FooImpl"
    /\ calls[CurCall].state = "not_started"
    /\ calls' = [calls EXCEPT ![CurCall].state = "in_progress",
                              ![CurCall].arg = zeds]
    /\ UNCHANGED <<runs, entry, epc, planned, issued, mock, captured, panic, drives, zeds>>

\* FooImpl::bar, line 58, the argument expression: Zed {}.
FooImpl_bar_construct ==
    /\ CallActive
    /\ calls[CurCall].provider = "FooImpl"
    /\ calls[CurCall].state = "not_started"
    /\ zeds' = zeds + 1
    /\ calls' = [calls EXCEPT ![CurCall].state = "in_progress",
                              ![CurCall].constructed = @ + 1,
                              ![CurCall].arg = zeds + 1]
    /\ UNCHANGED <<runs, entry, epc, planned, issued, mock, captured, panic, drives>>

\* Variant of Invoke: every closure panics.
Invoke_panics(f) ==
    [returns |-> FALSE, builds |-> 0]

\* What invoking the closure f does: whether it returns and how many Zed
\* values it builds.
Invoke(f) ==
    [returns |-> f # "panic", builds |-> IF f = "construct" THEN 1 ELSE 0]

\* Variant of FooImpl_bar_invoke: bar calls the closure a second time.
FooImpl_bar_invoke_twice ==
    /\ CallActive
    /\ calls[CurCall].provider = "FooImpl"
    /\ calls[CurCall].state = "in_progress"
    /\ calls' = [calls EXCEPT ![CurCall].invoked = @ + 2,
                              ![CurCall].invokedWith = calls[CurCall].arg,
                              ![CurCall].state = "complete"]
    /\ UNCHANGED <<runs, entry, epc, planned, issued, mock, captured, panic, drives, zeds>>

\* Variant of FooImpl_bar_invoke: a process-wide flag makes bar apply the
\* closure only the first time it is ever called.
FooImpl_bar_invoke_first_only ==
    /\ CallActive
    /\ calls[CurCall].provider = "FooImpl"
    /\ calls[CurCall].state = "in_progress"
    /\ LET first == \A c \in 1..(CurCall - 1) : calls[c].invoked = 0
       IN calls' = [calls EXCEPT
              ![CurCall].invoked = IF first THEN @ + 1 ELSE @,
              ![CurCall].invokedWith = IF first THEN calls[CurCall].arg ELSE @,
              ![CurCall].state = "complete"]
    /\ UNCHANGED <<runs, entry, epc, planned, issued, mock, captured, panic, drives, zeds>>

\* FooImpl::bar, line 58-59: update_fn(<the value>); the result is discarded
\* and bar returns.
FooImpl_bar_invoke ==
    /\ CallActive
    /\ calls[CurCall].provider = "FooImpl"
    /\ calls[CurCall].state = "in_progress"
    /\ LET r == Invoke(calls[CurCall].update_fn)
       IN /\ zeds' = zeds + r.builds
          /\ calls' = [calls EXCEPT
                 ![CurCall].invoked = @ + 1,
                 ![CurCall].invokedWith = calls[CurCall].arg,
                 ![CurCall].state = IF r.returns THEN "complete" ELSE "panicked"]
          /\ IF r.returns
                THEN UNCHANGED <<panic, epc, drives>>
                ELSE Unwind("update_fn_panicked")
    /\ UNCHANGED <<runs, entry, planned, issued, mock, captured>>

\* Variant of Withf: the predicate rejects the closure.
Withf_reject(slot) == [matches |-> FALSE, slot |-> slot]

\* The withf predicate of lines 26-32: the two lines that would store the
\* closure in the capture slot are commented out; it only answers true.
Withf(slot) == [matches |-> TRUE, slot |-> slot]

\* Variant of MockFoo_bar_match: the expectation has no times(1) limit, every
\* call is accepted.
MockFoo_bar_match_uncounted ==
    /\ CallActive
    /\ calls[CurCall].provider = "MockFoo"
    /\ calls[CurCall].state = "not_started"
    /\ mock' = [mock EXCEPT !.count = @ + 1]
    /\ calls' = [calls EXCEPT ![CurCall].state = "in_progress"]
    /\ UNCHANGED <<runs, entry, epc, planned, issued, captured, panic, drives, zeds>>

\* MockFoo::bar, first half: the closure is boxed, the expectation's withf
\* predicate is evaluated and the call is counted against times(1).
MockFoo_bar_match ==
    /\ CallActive
    /\ calls[CurCall].provider = "MockFoo"
    /\ calls[CurCall].state = "not_started"
    /\ LET w == Withf(captured)
           within == mock.count + 1 <= Times
       IN /\ captured' = w.slot
          /\ mock' = [mock EXCEPT
                 !.count = @ + 1,
                 !.verdict = IF w.matches /\ within THEN @ ELSE "failed",
                 !.state = IF w.matches /\ within THEN @ ELSE "dropped"]
          /\ calls' = [calls EXCEPT ![CurCall].state =
                 IF w.matches /\ within THEN "in_progress" ELSE "panicked"]
          /\ IF w.matches /\ within
                THEN UNCHANGED <<panic, epc, drives>>
                ELSE Unwind(IF w.matches THEN "called_more_than_expected"
                                         ELSE "no_matching_expectation")
    /\ UNCHANGED <<runs, entry, planned, issued, zeds>>

\* Variant of MockFoo_bar_return: the double is configured to run the real
\* behaviour (build a Zed, apply the closure) before returning.
MockFoo_bar_return_executes ==
    /\ CallActive
    /\ calls[CurCall].provider = "MockFoo"
    /\ calls[CurCall].state = "in_progress"
    /\ zeds' = zeds + 1
    /\ calls' = [calls EXCEPT ![CurCall].state = "complete",
                              ![CurCall].constructed = @ + 1,
                              ![CurCall].arg = zeds + 1,
                              ![CurCall].invoked = @ + 1,
                              ![CurCall].invokedWith = zeds + 1]
    /\ UNCHANGED <<runs, entry, epc, planned, issued, mock, captured, panic, drives>>

\* MockFoo::bar, second half: return_const(()) - the boxed closure is
\* dropped without being invoked and () is returned.
MockFoo_bar_return ==
    /\ CallActive
    /\ calls[CurCall].provider = "MockFoo"
    /\ calls[CurCall].state = "in_progress"
    /\ calls' = [calls EXCEPT ![CurCall].state = "complete"]
    /\ UNCHANGED <<runs, entry, epc, planned, issued, mock, captured, panic, drives, zeds>>

Next ==
    \/ main_start
    \/ main_return
    \/ \E n \in 0..MaxDrives : test_foo_start(n)
    \/ test_foo_call_baz
    \/ test_foo_drop_unused
    \/ test_foo_assert
    \/ \E f \in Transforms : caller_start(f)
    \/ caller_return
    \/ BazImpl_baz_call
    \/ BazImpl_baz_return
    \/ FooImpl_bar_construct
    \/ FooImpl_bar_invoke
    \/ MockFoo_bar_match
    \/ MockFoo_bar_return

Spec == Init /\ [][Next]_vars

\* #[tokio::main] / #[tokio::test] block on the entry point's future: the
\* runtime keeps polling it until it completes, so every step of the call
\* chain that is enabled is eventually taken.
FairSpec ==
    /\ Spec
    /\ WF_vars(BazImpl_baz_call)
    /\ WF_vars(FooImpl_bar_construct)
    /\ WF_vars(FooImpl_bar_invoke)
    /\ WF_vars(MockFoo_bar_match)
    /\ WF_vars(MockFoo_bar_return)
    /\ WF_vars(BazImpl_baz_return)
    /\ WF_vars(main_return)

(***************************************************************************)
(* Properties                                                              *)
(***************************************************************************)

Calls == 1..Len(calls)
Drives == 1..Len(drives)

\* The bar calls issued by baz invocation d.
CallsOf(d) == {c \in Calls : calls[c].drive = d}

\* The call has returned or has unwound.
Ended(c) == calls[c].state \in {"complete", "panicked"}

\* The baz invocation has returned or has unwound.
Finished(d) == drives[d].state \in {"complete", "unwound"}

IsPrefix(s, t) == Len(s) <= Len(t) /\ SubSeq(t, 1, Len(s)) = s

\* What the orchestrator did in invocation d, as seen at its provider.
DrivePattern(d) ==
    [log |-> drives[d].log, bars |-> drives[d].bars, state |-> drives[d].state]

\* How often the closures handed over in invocation d were applied.
Invocations(d) ==
    [calls |-> Cardinality(CallsOf(d)),
     applied |-> {calls[c].invoked : c \in CallsOf(d)}]

\* C1: for every closure f, a call of FooImpl::bar with f applies f exactly
\* once (never more while the call runs, exactly once when it has ended),
\* and the argument of that application is the Zed built inside this call.
C1_ApplyInvokesOnceOnFreshZed ==
    \A c \in Calls :
        calls[c].provider = "FooImpl" =>
            /\ calls[c].invoked <= 1
            /\ Ended(c) =>
                  /\ calls[c].invoked = 1
                  /\ calls[c].constructed = 1
                  /\ calls[c].invokedWith = calls[c].arg
                  /\ calls[c].invokedWith > calls[c].zedsAtCall
                  /\ calls[c].invokedWith <= zeds

\* A FooImpl::bar call with a closure other than the identity has ended,
\* after an earlier call had already built a Zed.
C1_Witness ==
    \E c \in Calls :
        /\ calls[c].provider = "FooImpl"
        /\ calls[c].update_fn = "construct"
        /\ calls[c].state = "complete"
        /\ calls[c].zedsAtCall > 0

\* C2: for either provider, one invocation of BazImpl::baz calls bar exactly
\* once: never more than once at any time, and exactly once when baz is over.
C2_DriveCallsBarExactlyOnce ==
    \A d \in Drives :
        /\ drives[d].bars = Cardinality(CallsOf(d))
        /\ drives[d].bars <= 1
        /\ Finished(d) => drives[d].bars = 1

\* baz has completed once on FooImpl and once on MockFoo.
C2_Witness ==
    \E d, e \in Drives :
        /\ drives[d].provider = "FooImpl" /\ drives[d].state = "complete"
        /\ drives[e].provider = "MockFoo" /\ drives[e].state = "complete"
        /\ drives[d].bars = 1 /\ drives[e].bars = 1

CallCountPanics == {"called_fewer_than_expected", "called_more_than_expected"}

C4_ClosureCaptured ==
    (/\ entry = "test_foo"
     /\ epc = "after_baz"
     /\ planned = 1
     /\ issued = 1
     /\ drives[CurDrive].state = "complete") => captured = "Some"

\* C5: putting MockFoo in FooImpl's place does not change what the
\* orchestrator does: at every moment the calls made on the two providers
\* are the same so far, and an invocation on a new double ends the way an
\* invocation on FooImpl ends, after the same calls.
C5_SubstitutionKeepsControlFlow ==
    \A d, e \in Drives :
        (drives[d].provider = "FooImpl" /\ drives[e].provider = "MockFoo") =>
            /\ IsPrefix(drives[d].log, drives[e].log)
                  \/ IsPrefix(drives[e].log, drives[d].log)
            /\ (drives[e].fresh /\ Finished(d) /\ Finished(e)) =>
                  DrivePattern(d) = DrivePattern(e)

\* main's invocation and test_foo's invocation (the single one it issues)
\* have both ended.
C5_Witness ==
    \E d, e \in Drives :
        /\ drives[d].entry = "main" /\ Finished(d)
        /\ drives[e].entry = "test_foo" /\ Finished(e)
        /\ drives[e].fresh
        /\ planned = 1

\* C6: baz is complete only when the bar call it issued is complete; it is
\* never complete while that call is not started or in progress.
C6_DriveCompletesAfterApply ==
    \A d \in Drives :
        drives[d].state = "complete" =>
            /\ CallsOf(d) # {}
            /\ \A c \in CallsOf(d) : calls[c].state = "complete"

\* A baz invocation is awaiting a bar call that is in progress, after an
\* earlier invocation completed.
C6_Witness ==
    \E d, e \in Drives :
        /\ drives[d].state = "complete"
        /\ drives[e].state = "awaiting"
        /\ \E c \in CallsOf(e) : calls[c].state = "in_progress"

MaxDriveRecords == MaxRuns * (MaxDrives + 1)

\* baz invocation d is main's, it completed, having called bar once and
\* applied the closure once to one Zed.
MainDriveDone(d) ==
    /\ d \in Drives
    /\ drives[d].entry = "main"
    /\ drives[d].state = "complete"
    /\ drives[d].bars = 1
    /\ \A c \in CallsOf(d) :
          /\ calls[c].state = "complete"
          /\ calls[c].update_fn = "identity"
          /\ calls[c].invoked = 1
          /\ calls[c].constructed = 1

\* C7: started as main starts it (FooImpl, identity closure), baz eventually
\* is complete, with bar called once and the closure applied once to one
\* Zed, and main never is in a panic state.
C7_MainCompletesWithoutPanic ==
    /\ [](entry = "main" => (panic = "none" /\ epc # "panicked"))
    /\ \A d \in 1..MaxDriveRecords :
          (d \in Drives /\ drives[d].entry = "main") ~> MainDriveDone(d)

\* main has returned.
C7_Witness ==
    /\ entry = "main"
    /\ epc = "exited"
    /\ MainDriveDone(CurDrive)

\* C8: for either provider, a closure handed to bar is applied at most once
\* in all, and is not applied once that bar call has ended.
C8_AtMostOnceNeverAfterReturn ==
    /\ [](\A c \in Calls : calls[c].invoked <= 1)
    /\ [][\A c \in Calls : Ended(c) => calls'[c].invoked = calls[c].invoked]_vars

\* Both providers have taken a closure, the calls have ended and further
\* steps have been taken since.
C8_Witness ==
    /\ runs = MaxRuns
    /\ Stopped
    /\ \E c, k \in Calls :
          /\ calls[c].provider = "FooImpl" /\ calls[c].invoked = 1
          /\ calls[k].provider = "MockFoo" /\ calls[k].invoked = 0
          /\ Ended(c) /\ Ended(k)

\* C9: two runs of baz, each on a new orchestrator and a new provider of the
\* same kind, show the same pattern: the same calls, the same number of
\* applications of the closure, the same end.
C9_FreshRunsRepeat ==
    \A d, e \in Drives :
        (/\ drives[d].provider = drives[e].provider
         /\ drives[d].fresh /\ drives[e].fresh
         /\ Finished(d) /\ Finished(e)) =>
            /\ DrivePattern(d) = DrivePattern(e)
            /\ Invocations(d) = Invocations(e)

\* main has run to completion twice.
C9_Witness ==
    \E d, e \in Drives :
        /\ d < e
        /\ drives[d].entry = "main" /\ drives[e].entry = "main"
        /\ drives[d].state = "complete" /\ drives[e].state = "complete"

\* C10: the double set up with return_const(()) returns from bar without
\* running the closure: it is applied zero times and no Zed is built during
\* the test's baz invocation; FooImpl, driven by baz, applies it once.
C10_DoubleSkipsTransform ==
    /\ \A c \in Calls :
          /\ (calls[c].provider = "MockFoo") =>
                /\ calls[c].invoked = 0
                /\ calls[c].constructed = 0
          /\ (calls[c].provider = "FooImpl" /\ calls[c].drive > 0
                /\ calls[c].state = "complete") => calls[c].invoked = 1
    /\ (entry = "test_foo" /\ CurCall > 0 /\ calls[CurCall].provider = "MockFoo")
          => zeds = calls[CurCall].zedsAtCall

\* The double's bar has returned inside baz, after main's run had applied
\* the closure once.
C10_Witness ==
    /\ entry = "test_foo"
    /\ CurCall > 1
    /\ calls[CurCall].provider = "MockFoo"
    /\ calls[CurCall].state = "complete"
    /\ calls[1].provider = "FooImpl" /\ calls[1].drive > 0 /\ calls[1].invoked = 1
====
